---- MODULE Spec2Model ----
(***************************************************************************)
(* A model of the link-relation traversal engine of stac.py: the link      *)
(* filter of an entity, the resource factory, the navigation properties    *)
(* (parent, root, children, items) and the recursive walk.                 *)
(*                                                                         *)
(* The specifications below share one tuple of variables:                  *)
(*   SpecLinks       the link filter as a function of a document and flags *)
(*   SpecMake        ResourceFactory.make as a function of a document      *)
(*   Spec            one entity, its navigation properties and the fetcher *)
(*   SpecWalk        Catalog.walk and Catalog.filter_by_id over a graph    *)
(*   SpecCollection  Collection.license                                    *)
(*   SpecItem        Item.collection                                       *)
(*   SpecCyc         Catalog.walk over a graph with back links             *)
(*   SpecLink        Link.rel and Link.href                                *)
(*   SpecLinksInit   the constructor of Links                              *)
(*   SpecRegister    ResourceFactory.register, then make                   *)
(*   SpecResource    a sequence of Link.resource() calls                   *)
(*   SpecFresh       a caller changing the Links collection it was handed  *)
(*   SpecThree       the three implementations of the link filter          *)
(*   SpecConsume     walk, its consumer iterating the yielded generators   *)
(*   SpecStray       walk, a child link answering what cannot be walked    *)
(*   SpecService     Service.catalog() called repeatedly                   *)
(***************************************************************************)
EXTENDS Naturals, Sequences, FiniteSets

VARIABLES
    factories,  \* ResourceFactory._factories: type tag -> constructor
    world,      \* what Utils.get answers for each URL
    this,       \* the entity the caller holds: [cls, data]
    call,       \* the arguments of the call under way
    ret,        \* what the last call returned or raised
    pc,         \* where the caller is
    fetchLog,   \* the URLs handed to Utils.get, in order
    gen,        \* the children/items generator being consumed
    frames,     \* the suspended frames of the recursive walk generator
    yielded,    \* what the consumed generator has yielded so far
    trace       \* the calls made so far that a property speaks of, in order

vars == <<factories, world, this, call, ret, pc, fetchLog, gen, frames, yielded, trace>>

(***************************************************************************)
(* Bounds of the model.                                                    *)
(***************************************************************************)
MaxLinks == 3       \* links of a document handed to the link filter
MaxNavLinks == 2    \* links of the entity whose navigation properties are read
MaxChildren == 2    \* child links of one node of a walked graph
MaxAccesses == 2    \* times the caller reads children or items and consumes it
MaxYields == 6      \* triples the consumer of a walk over a cyclic graph asks for
MaxRegisters == 2   \* register calls a host application makes after those of stac.py
MaxCalls == 3       \* resource() calls a caller makes on the links of one entity
MaxCatalogCalls == 3    \* catalog() calls made on one Service
MaxMutations == 2   \* changes a caller makes to a Links collection it was handed

SeqsUpTo(S, n) == UNION {[1..k -> S] : k \in 0..n}

(***************************************************************************)
(* Documents.  A JSON document is its "type" tag (NoType: no such key),    *)
(* the set of its other keys, its id and its links array.  A link is its   *)
(* rel string and its href.                                                *)
(***************************************************************************)
NoType == "<no type key>"
EmptyDoc == [type |-> NoType, keys |-> {}, id |-> "", links |-> <<>>]

HasKey(data, k) == IF k = "type" THEN data.type # NoType ELSE k \in data.keys

(***************************************************************************)
(* relation.py: the members of RelationType and their string values.       *)
(***************************************************************************)
RelationType ==
    [ALTERNATE |-> "alternate", CANONICAL |-> "canonical", CHILD |-> "child",
     COLLECTION |-> "collection", CONFORMANCE |-> "conformance", DATA |-> "data",
     DERIVED_FROM |-> "derived_from", DOCS |-> "docs", ITEM |-> "item",
     LICENSE |-> "license", NEXT |-> "next", PARENT |-> "parent",
     PREV |-> "prev", PREVIEW |-> "preview", ROOT |-> "root",
     SEARCH |-> "search", SELF |-> "self", VIA |-> "via"]

None == "None"

(***************************************************************************)
(* The two RuntimeErrors of the link filter, told apart by their message.  *)
(***************************************************************************)
NoLinkFoundError == "RuntimeError: No link found with relationship"
AmbiguousLinkError == "RuntimeError: Found more than one link with relationship"
KeyError == "KeyError"
AttributeError == "AttributeError"
Ok == "ok"

(***************************************************************************)
(* The link filter.  RelSelect is the list comprehension, CheckLinks the   *)
(* two cardinality checks and the final Links(selected_links).             *)
(***************************************************************************)
RelSelect_EnumNotValue(links, rel_type) ==
    IF rel_type # None
    THEN SelectSeq(links, LAMBDA link : link.rel = rel_type)
    ELSE links

RelSelect_Reversed(links, rel_type) ==
    LET selected == IF rel_type # None
                    THEN SelectSeq(links, LAMBDA link : link.rel = RelationType[rel_type])
                    ELSE links
    IN  [i \in 1..Len(selected) |-> selected[Len(selected) + 1 - i]]

RelSelect(links, rel_type) ==
    IF rel_type # None
    THEN SelectSeq(links, LAMBDA link : link.rel = RelationType[rel_type])
    ELSE links

CheckLinks_SingleTooLax(selected_links, single, mandatory) ==
    IF mandatory /\ selected_links = <<>>
    THEN [err |-> NoLinkFoundError, links |-> <<>>]
    ELSE IF single /\ Len(selected_links) > 2
    THEN [err |-> AmbiguousLinkError, links |-> <<>>]
    ELSE [err |-> Ok, links |-> selected_links]

CheckLinks(selected_links, single, mandatory) ==
    IF mandatory /\ selected_links = <<>>
    THEN [err |-> NoLinkFoundError, links |-> <<>>]
    ELSE IF single /\ Len(selected_links) > 1
    THEN [err |-> AmbiguousLinkError, links |-> <<>>]
    ELSE [err |-> Ok, links |-> selected_links]

\* Traversable.links: self.get('links', [])
TraversableLinks(data, rel_type, single, mandatory) ==
    LET selected_links == IF HasKey(data, "links") THEN data.links ELSE <<>>
    IN  CheckLinks(RelSelect(selected_links, rel_type), single, mandatory)

\* BaseContainer._links: self.get('links', [])
BaseContainerLinks(data, rel_type, single, mandatory) ==
    LET selected_links == IF HasKey(data, "links") THEN data.links ELSE <<>>
    IN  CheckLinks(RelSelect(selected_links, rel_type), single, mandatory)

\* Item._links: self['links']
ItemLinks(data, rel_type, single, mandatory) ==
    IF HasKey(data, "links")
    THEN CheckLinks(RelSelect(data.links, rel_type), single, mandatory)
    ELSE [err |-> KeyError, links |-> <<>>]

\* The link filter of an instance, by its class.
LinksOf(inst, rel_type, single, mandatory) ==
    CASE inst.cls = "Item" -> ItemLinks(inst.data, rel_type, single, mandatory)
      [] inst.cls = "BaseContainer" ->
            BaseContainerLinks(inst.data, rel_type, single, mandatory)
      [] OTHER -> TraversableLinks(inst.data, rel_type, single, mandatory)

(***************************************************************************)
(* resource_factory.py and the registrations of stac.py.                   *)
(***************************************************************************)
StacRegistrations ==
    [Catalog |-> "Catalog", Collection |-> "Collection", Item |-> "Item"]

\* The calls that build them, as stac.py makes them when it is imported.
StacCalls ==
    <<[op |-> "register", name |-> "Catalog", factory |-> "Catalog"],
      [op |-> "register", name |-> "Collection", factory |-> "Collection"],
      [op |-> "register", name |-> "Item", factory |-> "Item"]>>

Register_KeepExisting(fs, name, factory) ==
    [n \in DOMAIN fs \cup {name} |-> IF n \in DOMAIN fs THEN fs[n] ELSE factory]

\* ResourceFactory.register: cls._factories[name] = factory
Register(fs, name, factory) ==
    [n \in DOMAIN fs \cup {name} |-> IF n = name THEN factory ELSE fs[n]]

Exists(fs, name) == name \in DOMAIN fs

Make_CatalogFirst(fs, data) ==
    IF HasKey(data, "type") /\ Exists(fs, data.type)
    THEN [cls |-> fs[data.type], data |-> data]
    ELSE IF {"stac_version", "description", "links"} \subseteq data.keys
    THEN [cls |-> fs["Catalog"], data |-> data]
    ELSE IF {"extent", "providers", "properties"} \cap data.keys # {}
    THEN [cls |-> fs["Collection"], data |-> data]
    ELSE [cls |-> "dict", data |-> data]

Make_AnyCatalogKey(fs, data) ==
    IF HasKey(data, "type") /\ Exists(fs, data.type)
    THEN [cls |-> fs[data.type], data |-> data]
    ELSE IF {"extent", "providers", "properties"} \cap data.keys # {}
    THEN [cls |-> fs["Collection"], data |-> data]
    ELSE IF {"stac_version", "description", "links"} \cap data.keys # {}
    THEN [cls |-> fs["Catalog"], data |-> data]
    ELSE [cls |-> "dict", data |-> data]

Make_IgnoreTag(fs, data) ==
    IF {"extent", "providers", "properties"} \cap data.keys # {}
    THEN [cls |-> fs["Collection"], data |-> data]
    ELSE IF {"stac_version", "description", "links"} \subseteq data.keys
    THEN [cls |-> fs["Catalog"], data |-> data]
    ELSE [cls |-> "dict", data |-> data]

Make(fs, data) ==
    IF HasKey(data, "type") /\ Exists(fs, data.type)
    THEN [cls |-> fs[data.type], data |-> data]
    ELSE IF {"extent", "providers", "properties"} \cap data.keys # {}
    THEN [cls |-> fs["Collection"], data |-> data]
    ELSE IF {"stac_version", "description", "links"} \subseteq data.keys
    THEN [cls |-> fs["Catalog"], data |-> data]
    ELSE [cls |-> "dict", data |-> data]

(***************************************************************************)
(* Values the variables take when a specification does not use them.       *)
(***************************************************************************)
NoInst == [cls |-> "NoneType", data |-> EmptyDoc]
NoCall == [op |-> "none", rel_type |-> None, single |-> FALSE, mandatory |-> FALSE,
           id |-> ""]
NoRet == [err |-> "pending", links |-> <<>>, inst |-> NoInst, url |-> "",
          value |-> None]
NoGen == [state |-> "none", kind |-> None, owner |-> NoInst, rest |-> <<>>,
          nth |-> 0]

(***************************************************************************)
(* SpecLinks: the link filter applied to a drawn document, relation type   *)
(* and pair of flags.                                                      *)
(***************************************************************************)
Hrefs == {"http://x/u1", "http://x/u2"}
FilterRels == {"child", "self", "x-ext"}
FilterRelTypes == {None, "CHILD", "SELF", "PARENT"}
FilterLinks == [rel : FilterRels, href : Hrefs]

FilterDocs ==
    {[type |-> NoType, keys |-> {"id", "links"}, id |-> "e", links |-> ls] :
        ls \in SeqsUpTo(FilterLinks, MaxLinks)}
    \cup {[type |-> NoType, keys |-> {"id"}, id |-> "e", links |-> <<>>]}

InitLinks ==
    /\ factories = StacRegistrations
    /\ trace = <<>>
    /\ world = <<>>
    /\ this \in {[cls |-> "Catalog", data |-> d] : d \in FilterDocs}
    /\ call \in {[op |-> "links", rel_type |-> r, single |-> s, mandatory |-> m,
                  id |-> ""] : r \in FilterRelTypes, s \in BOOLEAN, m \in BOOLEAN}
    /\ ret = NoRet
    /\ pc = "ready"
    /\ fetchLog = <<>>
    /\ gen = NoGen
    /\ frames = <<>>
    /\ yielded = <<>>

CallLinks ==
    /\ pc = "ready"
    /\ call.op = "links"
    /\ LET r == LinksOf(this, call.rel_type, call.single, call.mandatory)
       IN  ret' = [NoRet EXCEPT !.err = r.err, !.links = r.links]
    /\ pc' = "done"
    /\ UNCHANGED <<factories, world, this, call, fetchLog, gen, frames, yielded, trace>>

NextLinks == CallLinks

SpecLinks == InitLinks /\ [][NextLinks]_vars

(***************************************************************************)
(* SpecMake: ResourceFactory.make applied to a drawn document, with the    *)
(* registrations of stac.py in place.                                      *)
(***************************************************************************)
TypeTags == {NoType, "Catalog", "Collection", "Item", "Feature", "FeatureCollection"}
MakeKeys == {"extent", "providers", "properties", "stac_version", "description", "links"}

MakeDocs ==
    {[type |-> t, keys |-> ks, id |-> "", links |-> <<>>] :
        t \in TypeTags, ks \in SUBSET MakeKeys}

InitMake ==
    /\ factories = StacRegistrations
    /\ trace = <<>>
    /\ world = <<>>
    /\ this \in {[cls |-> "dict", data |-> d] : d \in MakeDocs}
    /\ call = [NoCall EXCEPT !.op = "make"]
    /\ ret = NoRet
    /\ pc = "ready"
    /\ fetchLog = <<>>
    /\ gen = NoGen
    /\ frames = <<>>
    /\ yielded = <<>>

CallMake ==
    /\ pc = "ready"
    /\ call.op = "make"
    /\ ret' = [NoRet EXCEPT !.err = Ok, !.inst = Make(factories, this.data)]
    /\ pc' = "done"
    /\ UNCHANGED <<factories, world, this, call, fetchLog, gen, frames, yielded, trace>>

NextMake == CallMake

SpecMake == InitMake /\ [][NextMake]_vars

(***************************************************************************)
(* The fetcher and Link.resource.  Utils.get answers a URL with a JSON     *)
(* document, or raises HTTPError (raise_for_status) or ValueError (the     *)
(* content type is not JSON).                                              *)
(***************************************************************************)
HTTPError == "HTTPError"
ValueError == "ValueError"

Get(w, url) == w[url]

LinkResource_SwallowError(w, fs, link) ==
    LET response == Get(w, link.href)
    IN  IF response.status = Ok
        THEN [err |-> Ok, inst |-> Make(fs, response.data), url |-> link.href,
              fetched |-> <<link.href>>]
        ELSE [err |-> Ok, inst |-> NoInst, url |-> link.href,
              fetched |-> <<link.href>>]

LinkResource_Retry(w, fs, link) ==
    LET response == Get(w, link.href)
    IN  IF response.status = Ok
        THEN [err |-> Ok, inst |-> Make(fs, response.data), url |-> link.href,
              fetched |-> <<link.href>>]
        ELSE [err |-> response.status, inst |-> NoInst, url |-> link.href,
              fetched |-> <<link.href, link.href>>]

\* Link.resource: Utils.get(self['href']), then ResourceFactory.make(data).
\* The result tells the URLs handed to Utils.get on the way.
LinkResource(w, fs, link) ==
    LET response == Get(w, link.href)
    IN  IF response.status = Ok
        THEN [err |-> Ok, inst |-> Make(fs, response.data), url |-> link.href,
              fetched |-> <<link.href>>]
        ELSE [err |-> response.status, inst |-> NoInst, url |-> link.href,
              fetched |-> <<link.href>>]

\* links = self.links(rel, single=True, mandatory=...);
\* return links[0].resource() if links else None
\* The result names the link that was resolved, if any.
ResolveSingle(w, fs, inst, rel_type, mandatory) ==
    LET r == LinksOf(inst, rel_type, TRUE, mandatory)
    IN  IF r.err # Ok
        THEN [err |-> r.err, inst |-> NoInst, url |-> "", fetched |-> <<>>]
        ELSE IF r.links = <<>>
        THEN [err |-> Ok, inst |-> NoInst, url |-> "", fetched |-> <<>>]
        ELSE LET res == LinkResource(w, fs, r.links[1])
             IN  [err |-> res.err, inst |-> res.inst, url |-> res.url,
                  fetched |-> res.fetched]

Parent_ByChild(w, fs, inst) == ResolveSingle(w, fs, inst, "CHILD", FALSE)

\* Traversable.parent, BaseContainer.parent, Item.parent
Parent(w, fs, inst) == ResolveSingle(w, fs, inst, "PARENT", FALSE)

\* Traversable.root, BaseContainer.root, Item.root: all three filter CHILD.
Root(w, fs, inst) == ResolveSingle(w, fs, inst, "CHILD", FALSE)

Url_FirstOfMany(inst) ==
    LET r == LinksOf(inst, "SELF", FALSE, FALSE)
    IN  IF r.err # Ok THEN [err |-> r.err, value |-> None]
        ELSE IF r.links = <<>> THEN [err |-> Ok, value |-> None]
        ELSE [err |-> Ok, value |-> r.links[1].href]

\* Traversable.url, BaseContainer.url, Item.url:
\* link = self.links(RelationType.SELF, single=True)
\* return link[0]['href'] if link else None
Url(inst) ==
    LET r == LinksOf(inst, "SELF", TRUE, FALSE)
    IN  IF r.err # Ok THEN [err |-> r.err, value |-> None]
        ELSE IF r.links = <<>> THEN [err |-> Ok, value |-> None]
        ELSE [err |-> Ok, value |-> r.links[1].href]

\* The classes that define the children and items properties.
HasChildren(inst) == inst.cls \in {"Catalog", "Collection", "BaseContainer"}

(***************************************************************************)
(* Spec: a caller holding one entity reads one of its navigation           *)
(* properties; children and items hand back a generator that the caller    *)
(* then consumes element by element.                                       *)
(***************************************************************************)
NavRels == {"self", "root", "parent", "child", "item"}
NavLinks == [rel : NavRels, href : Hrefs]
NavClasses == {"Catalog", "BaseContainer", "Item"}

NavDocs ==
    {[type |-> NoType, keys |-> {"stac_version", "id", "description", "links"},
      id |-> "root", links |-> ls] : ls \in SeqsUpTo(NavLinks, MaxNavLinks)}
    \cup {[type |-> NoType, keys |-> {"stac_version", "id", "description"},
           id |-> "root", links |-> <<>>]}

CollectionDoc ==
    [type |-> "Collection",
     keys |-> {"stac_version", "id", "description", "license", "extent", "links"},
     id |-> "c1", links |-> <<>>]
FeatureDoc ==
    [type |-> "Feature",
     keys |-> {"stac_version", "id", "geometry", "bbox", "properties", "assets", "links"},
     id |-> "i1", links |-> <<>>]
CatalogDoc ==
    [type |-> NoType, keys |-> {"stac_version", "id", "description", "links"},
     id |-> "k1", links |-> <<>>]

Answer(data) == [status |-> Ok, data |-> data]
Failure(e) == [status |-> e, data |-> EmptyDoc]

NavWorlds ==
    {[u \in Hrefs |-> IF u = "http://x/u1" THEN a ELSE b] :
        a \in {Failure(HTTPError), Answer(CollectionDoc), Answer(CatalogDoc)},
        b \in {Failure(ValueError), Answer(FeatureDoc), Answer(CollectionDoc)}}

Init ==
    /\ factories = StacRegistrations
    /\ trace = <<>>
    /\ world \in NavWorlds
    /\ this \in {[cls |-> c, data |-> d] : c \in NavClasses, d \in NavDocs}
    /\ call = NoCall
    /\ ret = NoRet
    /\ pc = "ready"
    /\ fetchLog = <<>>
    /\ gen = NoGen
    /\ frames = <<>>
    /\ yielded = <<>>

\* Reading a property that resolves at most one link.
Resolved(op, r) ==
    /\ call' = [NoCall EXCEPT !.op = op]
    /\ ret' = [NoRet EXCEPT !.err = r.err, !.inst = r.inst, !.url = r.url]
    /\ fetchLog' = fetchLog \o r.fetched
    /\ pc' = "done"
    /\ UNCHANGED <<factories, world, this, gen, frames, yielded, trace>>

AccessParent ==
    /\ pc = "ready"
    /\ Resolved("parent", Parent(world, factories, this))

AccessRoot ==
    /\ pc = "ready"
    /\ Resolved("root", Root(world, factories, this))

AccessUrl ==
    /\ pc = "ready"
    /\ call' = [NoCall EXCEPT !.op = "url"]
    /\ LET r == Url(this)
       IN  ret' = [NoRet EXCEPT !.err = r.err, !.value = r.value]
    /\ pc' = "done"
    /\ UNCHANGED <<factories, world, this, fetchLog, gen, frames, yielded, trace>>

\* Reading children or items runs no code of the generator yet.
AccessGenerator(op, rel_type) ==
    /\ pc = "ready"
    /\ HasChildren(this)
    /\ call' = [NoCall EXCEPT !.op = op]
    /\ gen' = [state |-> "new", kind |-> rel_type, owner |-> this, rest |-> <<>>,
                nth |-> 1]
    /\ pc' = "iter"
    /\ UNCHANGED <<factories, world, this, ret, fetchLog, frames, yielded, trace>>

AccessChildren == AccessGenerator("children", "CHILD")

AccessItems == AccessGenerator("items", "ITEM")

\* Item defines neither property: children is no attribute of it, and
\* items is the method its UserDict base inherits from Mapping, returned
\* bound and not called.
AccessMissing ==
    /\ pc = "ready"
    /\ ~HasChildren(this)
    /\ \E op \in {"children", "items"} :
            /\ call' = [NoCall EXCEPT !.op = op]
            /\ ret' = IF op = "items"
                      THEN [NoRet EXCEPT !.err = Ok, !.value = "method Mapping.items"]
                      ELSE [NoRet EXCEPT !.err = AttributeError]
    /\ pc' = "done"
    /\ UNCHANGED <<factories, world, this, fetchLog, gen, frames, yielded, trace>>

\* The links the generator still has to resolve: the first next() runs
\* links = self.links(rel), later ones go on in the for loop.
Pending_AllLinks(g) ==
    IF g.state = "new" THEN LinksOf(g.owner, None, FALSE, FALSE).links ELSE g.rest

Pending_SkipYielded(g) ==
    SelectSeq(IF g.state = "new" THEN LinksOf(g.owner, g.kind, FALSE, FALSE).links
              ELSE g.rest,
              LAMBDA link : \A i \in 1..Len(yielded) : yielded[i].url # link.href)

Pending_SharedWithTriple(g) ==
    IF g.state = "new"
    THEN LET links == LinksOf(g.owner, g.kind, FALSE, FALSE).links
             taken == Cardinality({j \in 1..Len(trace) :
                        trace[j].triple = Len(yielded) /\ trace[j].of = g.kind})
         IN  SubSeq(links, taken + 1, Len(links))
    ELSE g.rest

Pending(g) ==
    IF g.state = "new" THEN LinksOf(g.owner, g.kind, FALSE, FALSE).links ELSE g.rest

\* next(): the link resolves, the generator yields the resource.
GenYield ==
    /\ pc = "iter"
    /\ Pending(gen) # <<>>
    /\ LET r == LinkResource(world, factories, Head(Pending(gen)))
       IN  /\ r.err = Ok
           /\ fetchLog' = fetchLog \o r.fetched
           /\ yielded' = Append(yielded, [url |-> r.url, inst |-> r.inst])
           /\ gen' = [gen EXCEPT !.state = "run", !.rest = Tail(Pending(gen))]
    /\ UNCHANGED <<factories, world, this, call, ret, pc, frames, trace>>

\* next(): the fetch fails, the error leaves the generator, which is over.
GenRaise ==
    /\ pc = "iter"
    /\ Pending(gen) # <<>>
    /\ LET r == LinkResource(world, factories, Head(Pending(gen)))
       IN  /\ r.err # Ok
           /\ fetchLog' = fetchLog \o r.fetched
           /\ ret' = [NoRet EXCEPT !.err = r.err, !.url = r.url]
           /\ gen' = [gen EXCEPT !.state = "end", !.rest = <<>>]
    /\ pc' = "done"
    /\ UNCHANGED <<factories, world, this, call, frames, yielded, trace>>

\* next(): no link is left, StopIteration.
GenStop ==
    /\ pc = "iter"
    /\ Pending(gen) = <<>>
    /\ ret' = [NoRet EXCEPT !.err = Ok]
    /\ gen' = [gen EXCEPT !.state = "end", !.rest = <<>>]
    /\ pc' = "done"
    /\ UNCHANGED <<factories, world, this, call, fetchLog, frames, yielded, trace>>

AccessAgain_Cached ==
    /\ pc = "done"
    /\ call.op \in {"children", "items"}
    /\ gen.state = "end"
    /\ ret.err = Ok
    /\ gen.nth < MaxAccesses
    /\ gen' = [gen EXCEPT !.nth = gen.nth + 1]
    /\ yielded' = yielded \o yielded
    /\ UNCHANGED <<factories, world, this, call, ret, pc, fetchLog, frames, trace>>

\* The caller reads the property again once it has consumed the generator
\* to its end: a new generator, nothing kept of the old one.  nth counts the
\* generators the property has handed out.
AccessAgain ==
    /\ pc = "done"
    /\ call.op \in {"children", "items"}
    /\ gen.state = "end"
    /\ ret.err = Ok
    /\ gen.nth < MaxAccesses
    /\ gen' = [state |-> "new", kind |-> gen.kind, owner |-> this, rest |-> <<>>,
                nth |-> gen.nth + 1]
    /\ ret' = NoRet
    /\ pc' = "iter"
    /\ UNCHANGED <<factories, world, this, call, fetchLog, frames, yielded, trace>>

Next ==
    \/ AccessParent
    \/ AccessRoot
    \/ AccessUrl
    \/ AccessChildren
    \/ AccessItems
    \/ AccessMissing
    \/ GenYield
    \/ GenRaise
    \/ GenStop
    \/ AccessAgain

Spec == Init /\ [][Next]_vars

(***************************************************************************)
(* Catalog.walk.  The recursive generator is the stack of its suspended    *)
(* frames, the outermost first.  A frame that has yielded its own triple   *)
(* and not yet entered its for loop is "new"; then it keeps the child      *)
(* links its loop has not resolved yet.                                    *)
(***************************************************************************)
Walkable_AnyTraversable(inst) == inst.cls \in {"Catalog", "Collection", "Item"}

\* The classes that have a walk method.
Walkable(inst) == inst.cls \in {"Catalog", "Collection"}

NewGen(rel_type, inst) ==
    [state |-> "new", kind |-> rel_type, owner |-> inst, rest |-> <<>>, nth |-> 1]

\* The frame of walk() on an instance, suspended at its first yield.
NewFrame(url, inst) == [url |-> url, children |-> NewGen("CHILD", inst)]

RECURSIVE Unwind_NoPop(_)
Unwind_NoPop(fs) ==
    IF fs = <<>> THEN <<>>
    ELSE IF Pending(fs[Len(fs)].children) = <<>> THEN <<>> ELSE fs

\* Resuming the generator: a frame whose loop has no child link left ends,
\* and the frame that called it goes on with its own loop.
RECURSIVE Unwind(_)
Unwind(fs) ==
    IF fs = <<>> THEN <<>>
    ELSE IF Pending(fs[Len(fs)].children) = <<>>
         THEN Unwind(SubSeq(fs, 1, Len(fs) - 1))
         ELSE fs

(***************************************************************************)
(* SpecWalk: walk() and filter_by_id(id) on the root of a finite acyclic   *)
(* graph of Catalog and Collection documents, every fetch succeeding.      *)
(***************************************************************************)
RootUrl == "http://x/E"
NodeOrder == <<RootUrl, "http://x/A", "http://x/B", "http://x/X">>
Nodes == {NodeOrder[i] : i \in 1..Len(NodeOrder)}
ItemUrl == "http://x/i1"
Ids == {"t", "o"}
TargetId == "t"

\* Child links only lead to later nodes: the graph is acyclic.
Later(u) ==
    LET i == CHOOSE k \in 1..Len(NodeOrder) : NodeOrder[k] = u
    IN  {NodeOrder[k] : k \in (i + 1)..Len(NodeOrder)}

KidsOf(u) == SeqsUpTo(Later(u), MaxChildren)

Graphs ==
    {[u \in Nodes |-> CASE u = NodeOrder[1] -> e
                        [] u = NodeOrder[2] -> a
                        [] u = NodeOrder[3] -> b
                        [] OTHER -> <<>>] :
        e \in KidsOf(NodeOrder[1]), a \in KidsOf(NodeOrder[2]),
        b \in KidsOf(NodeOrder[3])}

ChildLinksTo(us) == [i \in 1..Len(us) |-> [rel |-> "child", href |-> us[i]]]

\* The document of a node: its item link, then its child links.  The last
\* node is a Collection, the others are Catalogs.
NodeDoc(u, id, kids) ==
    [type |-> IF u = NodeOrder[Len(NodeOrder)] THEN "Collection" ELSE NoType,
     keys |-> {"stac_version", "id", "description", "links"},
     id |-> id,
     links |-> <<[rel |-> "item", href |-> ItemUrl]>> \o ChildLinksTo(kids)]

GraphWorld(g, ids) ==
    [u \in Nodes \cup {ItemUrl} |->
        IF u = ItemUrl THEN Answer(FeatureDoc)
        ELSE Answer(NodeDoc(u, ids[u], g[u]))]

InitWalk ==
    /\ factories = StacRegistrations
    /\ trace = <<>>
    /\ \E g \in Graphs, ids \in [Nodes -> Ids] : world = GraphWorld(g, ids)
    /\ this = [cls |-> "Catalog", data |-> world[RootUrl].data]
    /\ call \in {[NoCall EXCEPT !.op = "walk"],
                 [NoCall EXCEPT !.op = "filter_by_id", !.id = TargetId]}
    /\ ret = NoRet
    /\ pc = "start"
    /\ fetchLog = <<>>
    /\ gen = NoGen
    /\ frames = <<>>
    /\ yielded = <<>>

Yields_TestsItems(url, inst) ==
    /\ yielded' = Append(yielded, [url |-> url, inst |-> inst])
    /\ IF call.op = "filter_by_id"
       THEN gen' = NewGen("ITEM", inst) /\ pc' = "inner"
       ELSE gen' = gen /\ pc' = "walking"

\* Where a triple yielded by walk goes: to the caller of walk, or into the
\* inner loop of filter_by_id over the triple's children generator.
Yields(url, inst) ==
    /\ yielded' = Append(yielded, [url |-> url, inst |-> inst])
    /\ IF call.op = "filter_by_id"
       THEN gen' = NewGen("CHILD", inst) /\ pc' = "inner"
       ELSE gen' = gen /\ pc' = "walking"

\* First next(): yield self, self.children, self.items
WalkStart ==
    /\ pc = "start"
    /\ frames' = <<NewFrame(RootUrl, this)>>
    /\ Yields(RootUrl, this)
    /\ UNCHANGED <<factories, world, this, call, ret, fetchLog, trace>>

\* next(): the innermost loop with a child link left resolves it, and
\* yield from child.walk() yields the child's triple.
WalkDescend ==
    /\ pc = "walking"
    /\ Unwind(frames) # <<>>
    /\ LET fs == Unwind(frames)
           top == fs[Len(fs)]
           links == Pending(top.children)
           r == LinkResource(world, factories, Head(links))
       IN  /\ r.err = Ok
           /\ Walkable(r.inst)
           /\ fetchLog' = fetchLog \o r.fetched
           /\ frames' = Append(
                [fs EXCEPT ![Len(fs)].children.state = "run",
                           ![Len(fs)].children.rest = Tail(links)],
                NewFrame(r.url, r.inst))
           /\ Yields(r.url, r.inst)
    /\ UNCHANGED <<factories, world, this, call, ret, trace>>

\* next(): every loop is over, StopIteration.  walk's caller is done;
\* filter_by_id falls off its outer loop and returns None.
WalkStop ==
    /\ pc = "walking"
    /\ Unwind(frames) = <<>>
    /\ frames' = <<>>
    /\ ret' = [NoRet EXCEPT !.err = Ok]
    /\ pc' = "done"
    /\ UNCHANGED <<factories, world, this, call, fetchLog, gen, yielded, trace>>

\* Traversable.id
IdOf(inst) == inst.data.id

\* filter_by_id, inner loop: the next child is fetched and has the id.
FilterMatch ==
    /\ pc = "inner"
    /\ Pending(gen) # <<>>
    /\ LET r == LinkResource(world, factories, Head(Pending(gen)))
       IN  /\ r.err = Ok
           /\ IdOf(r.inst) = call.id
           /\ fetchLog' = fetchLog \o r.fetched
           /\ ret' = [NoRet EXCEPT !.err = Ok, !.inst = r.inst, !.url = r.url]
           /\ gen' = [gen EXCEPT !.state = "run", !.rest = Tail(Pending(gen))]
    /\ pc' = "done"
    /\ UNCHANGED <<factories, world, this, call, frames, yielded, trace>>

\* filter_by_id, inner loop: the next child is fetched and has another id.
FilterMiss ==
    /\ pc = "inner"
    /\ Pending(gen) # <<>>
    /\ LET r == LinkResource(world, factories, Head(Pending(gen)))
       IN  /\ r.err = Ok
           /\ IdOf(r.inst) # call.id
           /\ fetchLog' = fetchLog \o r.fetched
           /\ gen' = [gen EXCEPT !.state = "run", !.rest = Tail(Pending(gen))]
    /\ UNCHANGED <<factories, world, this, call, ret, pc, frames, yielded, trace>>

\* filter_by_id, inner loop over: back to the outer loop, next(walk).
FilterChildrenDone ==
    /\ pc = "inner"
    /\ Pending(gen) = <<>>
    /\ gen' = [gen EXCEPT !.state = "end", !.rest = <<>>]
    /\ pc' = "walking"
    /\ UNCHANGED <<factories, world, this, call, ret, fetchLog, frames, yielded, trace>>

NextWalk ==
    \/ WalkStart
    \/ WalkDescend
    \/ WalkStop
    \/ FilterMatch
    \/ FilterMiss
    \/ FilterChildrenDone

SpecWalk == InitWalk /\ [][NextWalk]_vars

(***************************************************************************)
(* Properties of the link filter (SpecLinks).                              *)
(***************************************************************************)
DocLinks(data) == IF HasKey(data, "links") THEN data.links ELSE <<>>

\* How many links of the document carry the relation's string value.
RelCount(data, rel_type) ==
    Cardinality({i \in 1..Len(DocLinks(data)) :
                    DocLinks(data)[i].rel = RelationType[rel_type]})

FilterDone == pc = "done" /\ call.op = "links" /\ call.rel_type # None

\* C1: with single=True the filter fails with AmbiguousLinkError when more
\* than one link has the relation, and returns an empty collection without
\* error when no link has it.
C1_SingleFilter ==
    (FilterDone /\ call.single) =>
        /\ RelCount(this.data, call.rel_type) > 1 => ret.err = AmbiguousLinkError
        /\ (RelCount(this.data, call.rel_type) = 0 /\ ~call.mandatory) =>
                (ret.err = Ok /\ ret.links = <<>>)

C1_Witness ==
    /\ FilterDone /\ call.single /\ ~call.mandatory
    /\ RelCount(this.data, call.rel_type) = 2
    /\ Len(DocLinks(this.data)) = 3
    /\ ret.err = AmbiguousLinkError

\* C2: with mandatory=True the filter fails with NoLinkFoundError if and only
\* if no link of the document has the relation.
C2_MandatoryFilter ==
    (FilterDone /\ call.mandatory) =>
        (ret.err = NoLinkFoundError <=> RelCount(this.data, call.rel_type) = 0)

C2_Witness ==
    /\ FilterDone /\ call.mandatory
    /\ Len(DocLinks(this.data)) = 2
    /\ RelCount(this.data, call.rel_type) = 0
    /\ ret.err = NoLinkFoundError

(***************************************************************************)
(* Properties of ResourceFactory.make (SpecMake).                          *)
(***************************************************************************)
MakeDone == pc = "done" /\ call.op = "make"
RegisteredTag(data) == HasKey(data, "type") /\ data.type \in DOMAIN StacRegistrations

\* C3: a document without a registered type tag that contains extent and all
\* of stac_version, description, links is made a Collection, never a Catalog.
C3_CollectionBeforeCatalog ==
    (/\ MakeDone
     /\ ~RegisteredTag(this.data)
     /\ "extent" \in this.data.keys
     /\ {"stac_version", "description", "links"} \subseteq this.data.keys)
        => ret.inst.cls = "Collection"

C3_Witness ==
    /\ MakeDone
    /\ this.data.type = NoType
    /\ this.data.keys = {"extent", "stac_version", "description", "links"}
    /\ ret.inst.cls = "Collection"

\* C4: with the registrations of stac.py, a document tagged "Collection" is
\* made a Collection and a document tagged "Catalog" a Catalog, whatever
\* other keys it has.
C4_TagBeforeSignature ==
    MakeDone =>
        /\ this.data.type = "Collection" => ret.inst.cls = "Collection"
        /\ this.data.type = "Catalog" => ret.inst.cls = "Catalog"

C4_Witness ==
    /\ MakeDone
    /\ this.data.type = "Catalog"
    /\ "extent" \in this.data.keys
    /\ ret.inst.cls = "Catalog"

(***************************************************************************)
(* Properties of the navigation properties (Spec).                         *)
(***************************************************************************)
\* The links of the document that carry the relation's string value.
LinksWithRel(data, rel_type) ==
    LET ls == DocLinks(data)
        idx == {i \in 1..Len(ls) : ls[i].rel = RelationType[rel_type]}
    IN  {ls[i] : i \in idx}

ClassesOf(ys) == [i \in 1..Len(ys) |-> ys[i].inst.cls]

Consumed(op) ==
    pc = "done" /\ call.op = op /\ gen.state = "end" /\ gen.nth = 1 /\ ret.err = Ok

\* The scenario of C5: one child link, to a Collection document, and one item
\* link, to a document tagged "Feature".
C5_Scenario ==
    /\ this.cls = "Catalog"
    /\ RelCount(this.data, "CHILD") = 1
    /\ RelCount(this.data, "ITEM") = 1
    /\ \A l \in LinksWithRel(this.data, "CHILD") :
            world[l.href] = Answer(CollectionDoc)
    /\ \A l \in LinksWithRel(this.data, "ITEM") :
            world[l.href] = Answer(FeatureDoc)

\* C5: in that scenario, fully consuming children yields exactly one
\* Collection instance and fully consuming items exactly one Item instance.
C5_ChildrenAndItems ==
    C5_Scenario =>
        /\ Consumed("children") => ClassesOf(yielded) = <<"Collection">>
        /\ Consumed("items") => ClassesOf(yielded) = <<"Item">>

\* What C9 and C10 say of a property that resolves the links of one relation:
\* one such link is fetched once and its classified document returned, none
\* gives None without a fetch, several fail with AmbiguousLinkError without
\* a fetch.
ResolvesOnly(rel_type) ==
    LET n == RelCount(this.data, rel_type)
        l == CHOOSE x \in LinksWithRel(this.data, rel_type) : TRUE
    IN  /\ n = 1 =>
            /\ fetchLog = <<l.href>>
            /\ ret.err = world[l.href].status
            /\ ret.err = Ok => ret.inst = Make(StacRegistrations, world[l.href].data)
        /\ n = 0 => (ret.err = Ok /\ ret.inst = NoInst /\ fetchLog = <<>>)
        /\ n > 1 => (ret.err = AmbiguousLinkError /\ fetchLog = <<>>)

\* Item._links reads self['links'] and fails on a document without that key.
ReadsLinks == this.cls # "Item" \/ HasKey(this.data, "links")

\* C9: root depends only on the links of relation root.
C9_RootByRootLinks ==
    (pc = "done" /\ call.op = "root" /\ ReadsLinks) => ResolvesOnly("ROOT")

\* C10: parent depends only on the links of relation parent: exactly one is
\* fetched once and classified, none gives None without a fetch, several
\* fail with AmbiguousLinkError without a fetch.
C10_ParentByParentLinks ==
    (pc = "done" /\ call.op = "parent" /\ ReadsLinks) => ResolvesOnly("PARENT")

C10_Witness ==
    /\ pc = "done" /\ call.op = "parent"
    /\ this.cls = "Catalog"
    /\ RelCount(this.data, "PARENT") = 1
    /\ RelCount(this.data, "CHILD") = 1
    /\ Len(fetchLog) = 1
    /\ ret.inst.cls = "Collection"

(***************************************************************************)
(* Properties of walk and filter_by_id (SpecWalk).                         *)
(***************************************************************************)
RECURSIVE ChildUrls(_)
\* The hrefs of the child links of a links array, in document order.
ChildUrls(ls) ==
    IF ls = <<>> THEN <<>>
    ELSE (IF Head(ls).rel = "child" THEN <<Head(ls).href>> ELSE <<>>)
            \o ChildUrls(Tail(ls))

ChildrenOf(u) == ChildUrls(world[u].data.links)

RECURSIVE PathOrder(_)
\* Depth-first pre-order over child-link paths: the nodes to visit, first
\* to last; a node reached along two paths is visited along each of them.
PathOrder(todo) ==
    IF todo = <<>> THEN <<>>
    ELSE <<Head(todo)>> \o PathOrder(ChildrenOf(Head(todo)) \o Tail(todo))

RECURSIVE EntityOrder(_, _)
\* Depth-first pre-order over entities: each node once, at its first visit.
EntityOrder(todo, seen) ==
    IF todo = <<>> THEN <<>>
    ELSE IF Head(todo) \in seen THEN EntityOrder(Tail(todo), seen)
    ELSE <<Head(todo)>>
            \o EntityOrder(ChildrenOf(Head(todo)) \o Tail(todo), seen \cup {Head(todo)})

UrlsOf(ys) == [i \in 1..Len(ys) |-> ys[i].url]
InstancesOf(ys) == [i \in 1..Len(ys) |-> ys[i].inst]
Range(q) == {q[i] : i \in 1..Len(q)}

\* The instance a fetch of u gives, with the registrations of stac.py.
EntityAt(u) == Make(StacRegistrations, world[u].data)

WalkDone == pc = "done" /\ call.op = "walk"
FilterByIdDone == pc = "done" /\ call.op = "filter_by_id"

\* C6 as claimed: walk yields every entity reachable over child links exactly
\* once, in depth-first pre-order, starting with E.
C6_EachEntityOnce ==
    WalkDone => UrlsOf(yielded) = EntityOrder(<<RootUrl>>, {})

\* C6 as amended: walk yields one triple for every child-link path that
\* starts at E, in depth-first pre-order following child-link order,
\* starting with E: every reachable entity at least once, and exactly once
\* when only one path leads to it.
C6_WalkPathOrder ==
    WalkDone =>
        /\ UrlsOf(yielded) = PathOrder(<<RootUrl>>)
        /\ \A i \in 1..Len(yielded) :
                yielded[i].inst =
                    IF i = 1 THEN this ELSE EntityAt(yielded[i].url)

\* The walk of E -> [A, B], A -> [X], B -> [X]: X is yielded twice.
C6_Witness ==
    /\ WalkDone
    /\ UrlsOf(yielded) =
        <<RootUrl, "http://x/A", "http://x/X", "http://x/B", "http://x/X">>

\* The proper descendants of E, and those with the target id.
Descendants == Range(Tail(PathOrder(<<RootUrl>>)))
Matches == {u \in Descendants : world[u].data.id = call.id}

\* C7: filter_by_id returns the entity with the id when exactly one entity
\* reachable from E over child links has it, and None when none has it.
C7_FilterById ==
    FilterByIdDone =>
        /\ Cardinality(Matches) = 1 =>
                (ret.err = Ok /\ ret.url \in Matches /\ ret.inst = EntityAt(ret.url))
        /\ Matches = {} => (ret.err = Ok /\ ret.inst = NoInst)

\* The only match lies two levels down, behind a sibling subtree.
C7_Witness ==
    /\ FilterByIdDone
    /\ Matches = {"http://x/X"}
    /\ ChildrenOf(RootUrl) = <<"http://x/A", "http://x/B">>
    /\ ChildrenOf("http://x/A") = <<>>
    /\ ChildrenOf("http://x/B") = <<"http://x/X">>
    /\ ret.url = "http://x/X"
    /\ ret.inst.cls = "Collection"

RECURSIVE FirstWith(_, _)
\* The first element of a sequence of URLs whose document has the id.
FirstWith(us, id) ==
    IF us = <<>> THEN ""
    ELSE IF world[Head(us)].data.id = id THEN Head(us)
    ELSE FirstWith(Tail(us), id)

RECURSIVE Flatten(_)
Flatten(qs) == IF qs = <<>> THEN <<>> ELSE Head(qs) \o Flatten(Tail(qs))

\* The order in which filter_by_id tests entities: the children of each
\* walked entity in link order, the walked entities in depth-first pre-order.
TestOrder ==
    LET walked == PathOrder(<<RootUrl>>)
    IN  Flatten([i \in 1..Len(walked) |-> ChildrenOf(walked[i])])

\* C8 as claimed: with several matches filter_by_id returns the one that
\* comes first in depth-first pre-order.
C8_FirstInDepthFirstOrder ==
    (FilterByIdDone /\ Cardinality(Matches) > 1) =>
        ret.url = FirstWith(Tail(PathOrder(<<RootUrl>>)), call.id)

\* C8 as amended: with several matches filter_by_id returns the first match
\* in the order it tests entities: all children of a walked entity, in link
\* order, before any child of the next walked entity.
C8_FirstInTestOrder ==
    (FilterByIdDone /\ Cardinality(Matches) > 1) =>
        /\ ret.err = Ok
        /\ ret.url = FirstWith(TestOrder, call.id)
        /\ ret.inst = EntityAt(ret.url)

\* E -> [A, B], A -> [X], X and B have the id: B is returned, not X.
C8_Witness ==
    /\ FilterByIdDone
    /\ ChildrenOf(RootUrl) = <<"http://x/A", "http://x/B">>
    /\ ChildrenOf("http://x/A") = <<"http://x/X">>
    /\ Matches = {"http://x/X", "http://x/B"}
    /\ ret.url = "http://x/B"

(***************************************************************************)
(* More properties of the navigation properties (Spec).                    *)
(***************************************************************************)
\* C11: url returns the href of the self link when exactly one exists, None
\* when none exists (also without a links key), fails with
\* AmbiguousLinkError when two or more exist, and never fetches.
C11_Url ==
    (pc = "done" /\ call.op = "url" /\ ReadsLinks) =>
        LET n == RelCount(this.data, "SELF")
            l == CHOOSE x \in LinksWithRel(this.data, "SELF") : TRUE
        IN  /\ fetchLog = <<>>
            /\ n = 1 => (ret.err = Ok /\ ret.value = l.href)
            /\ n = 0 => (ret.err = Ok /\ ret.value = None)
            /\ n > 1 => ret.err = AmbiguousLinkError

C11_Witness ==
    /\ pc = "done" /\ call.op = "url"
    /\ this.cls = "Catalog"
    /\ RelCount(this.data, "SELF") = 2
    /\ ret.err = AmbiguousLinkError
    /\ fetchLog = <<>>

\* The hrefs of the links of the entity that the generator under way resolves.
GenHrefs ==
    LET ls == SelectSeq(DocLinks(this.data),
                        LAMBDA l : l.rel = (IF call.op = "children" THEN "child" ELSE "item"))
    IN  [i \in 1..Len(ls) |-> ls[i].href]

\* The elements the caller has asked the generators for and got an answer to:
\* those yielded and the one that raised.
Asked == Len(yielded) + (IF ret.err \in {Ok, "pending"} THEN 0 ELSE 1)

GenOp == call.op \in {"children", "items"} /\ HasChildren(this)

\* C12: reading children (or items) fetches nothing; consuming the n-th
\* element fetches exactly once, the href of the n-th child (item) link in
\* document order; reading and fully consuming the sequence again fetches
\* every link again: k links consumed twice are 2k fetches.
C12_LazyUncached ==
    GenOp =>
        LET k == Len(GenHrefs)
        IN  /\ (gen.state = "new" /\ gen.nth = 1) => fetchLog = <<>>
            /\ Len(fetchLog) = Asked
            /\ \A i \in 1..Len(fetchLog) : fetchLog[i] = GenHrefs[((i - 1) % k) + 1]
            /\ (gen.state = "end" /\ ret.err = Ok) => Len(fetchLog) = gen.nth * k

C12_Witness ==
    /\ GenOp /\ call.op = "children"
    /\ gen.state = "end" /\ ret.err = Ok /\ gen.nth = 2
    /\ Len(DocLinks(this.data)) = 2
    /\ fetchLog = <<"http://x/u2", "http://x/u2">>

\* The positions of the links of the generator whose fetch fails.
Failing == {i \in 1..Len(GenHrefs) : world[GenHrefs[i]].status # Ok}
FirstFailing == CHOOSE j \in Failing : \A i \in Failing : j <= i

\* C13: when the fetch of the j-th child link fails, reading children does
\* not fail, the first j-1 elements are delivered as usual, and the
\* fetcher's error comes out unchanged exactly when the j-th is consumed.
C13_FailureOnConsumption ==
    (GenOp /\ gen.nth = 1 /\ Failing # {}) =>
        LET j == FirstFailing
        IN  /\ gen.state = "new" => (ret.err = "pending" /\ pc = "iter")
            /\ Len(yielded) <= j - 1
            /\ \A i \in 1..Len(yielded) :
                    yielded[i].inst = Make(StacRegistrations, world[GenHrefs[i]].data)
            /\ Len(fetchLog) < j => ret.err = "pending"
            /\ Len(fetchLog) = j =>
                    (Len(yielded) = j - 1 /\ ret.err = world[GenHrefs[j]].status)
            /\ Len(fetchLog) <= j

C13_Witness ==
    /\ GenOp /\ call.op = "children" /\ gen.nth = 1
    /\ GenHrefs = <<"http://x/u2", "http://x/u1">>
    /\ ClassesOf(yielded) = <<"Collection">>
    /\ ret.err = HTTPError
    /\ pc = "done"

(***************************************************************************)
(* SpecCollection: a caller reads the license property of a Collection.    *)
(* The document carries a "license" value besides its links.               *)
(***************************************************************************)
LicenseValues == {"various", "proprietary", "MIT", "Apache-2.0"}
LicenseRels == {"license", "self"}
LicenseLinks == [rel : LicenseRels, href : Hrefs]

LicenseDocs ==
    {[type |-> "Collection", keys |-> {"id", "links", "license"}, id |-> "c",
      links |-> ls, license |-> lic] :
        ls \in SeqsUpTo(LicenseLinks, MaxLinks), lic \in LicenseValues}
    \cup {[type |-> "Collection", keys |-> {"id", "links"}, id |-> "c",
           links |-> ls, license |-> None] : ls \in SeqsUpTo(LicenseLinks, 1)}

\* The link-filter methods a class has: Traversable (hence Catalog and
\* Collection) defines links, BaseContainer and Item define _links.
Attributes(cls) ==
    IF cls \in {"BaseContainer", "Item"} THEN {"_links"} ELSE {"links"}

\* Collection.license:
\* lic = self['license']
\* if lic in ('various', 'proprietary'):
\*     return self._links(RelationType.LICENSE, mandatory=True)
\* else: return lic
License(inst) ==
    IF ~HasKey(inst.data, "license")
    THEN [err |-> KeyError, value |-> None, links |-> <<>>]
    ELSE LET lic == inst.data.license
         IN  IF lic \in {"various", "proprietary"}
             THEN IF "_links" \in Attributes(inst.cls)
                  THEN LET r == LinksOf(inst, "LICENSE", FALSE, TRUE)
                       IN  [err |-> r.err, value |-> None, links |-> r.links]
                  ELSE [err |-> AttributeError, value |-> None, links |-> <<>>]
             ELSE [err |-> Ok, value |-> lic, links |-> <<>>]

InitCollection ==
    /\ factories = StacRegistrations
    /\ trace = <<>>
    /\ world = <<>>
    /\ this \in {[cls |-> "Collection", data |-> d] : d \in LicenseDocs}
    /\ call = NoCall
    /\ ret = NoRet
    /\ pc = "ready"
    /\ fetchLog = <<>>
    /\ gen = NoGen
    /\ frames = <<>>
    /\ yielded = <<>>

AccessLicense ==
    /\ pc = "ready"
    /\ call' = [NoCall EXCEPT !.op = "license"]
    /\ LET r == License(this)
       IN  ret' = [NoRet EXCEPT !.err = r.err, !.value = r.value, !.links = r.links]
    /\ pc' = "done"
    /\ UNCHANGED <<factories, world, this, fetchLog, gen, frames, yielded, trace>>

NextCollection == AccessLicense

SpecCollection == InitCollection /\ [][NextCollection]_vars

(***************************************************************************)
(* Properties of Collection.license (SpecCollection).                      *)
(***************************************************************************)
LicenseDone == pc = "done" /\ call.op = "license" /\ HasKey(this.data, "license")

Sentinel == this.data.license \in {"various", "proprietary"}

\* C14: license of a Collection whose license value is "various" or
\* "proprietary" and whose document has no link of relation license fails
\* with NoLinkFoundError.
C14_LicenseWithoutLink ==
    (LicenseDone /\ Sentinel /\ RelCount(this.data, "LICENSE") = 0) =>
        ret.err = NoLinkFoundError

\* C15: license returns the plain license string when the value is not a
\* sentinel; when it is one and the document has at least one license link,
\* it returns exactly the license links, in document order.
C15_LicenseValue ==
    LicenseDone =>
        /\ ~Sentinel => (ret.err = Ok /\ ret.value = this.data.license)
        /\ (Sentinel /\ RelCount(this.data, "LICENSE") >= 1) =>
                /\ ret.err = Ok
                /\ ret.links = SelectSeq(DocLinks(this.data),
                                         LAMBDA link : link.rel = "license")

(***************************************************************************)
(* SpecItem: a caller reads the collection property of an Item.  The       *)
(* document may carry a "collection" key (the collection id) and may lack  *)
(* the "links" key.                                                        *)
(***************************************************************************)
ItemRels == {"collection", "parent"}
ItemLinkValues == [rel : ItemRels, href : Hrefs]

ItemDocs ==
    {[type |-> "Feature", keys |-> {"id", "links"} \cup ks, id |-> "i", links |-> ls] :
        ks \in SUBSET {"collection"}, ls \in SeqsUpTo(ItemLinkValues, MaxNavLinks)}
    \cup {[type |-> "Feature", keys |-> {"id"} \cup ks, id |-> "i", links |-> <<>>] :
            ks \in SUBSET {"collection"}}

\* Item.collection:
\* links = self._links(RelationType.COLLECTION, single=True,
\*                     mandatory='collection' in self)
\* return links[0].resource() if links else None
CollectionOf(w, fs, inst) ==
    ResolveSingle(w, fs, inst, "COLLECTION", HasKey(inst.data, "collection"))

InitItem ==
    /\ factories = StacRegistrations
    /\ trace = <<>>
    /\ world \in NavWorlds
    /\ this \in {[cls |-> "Item", data |-> d] : d \in ItemDocs}
    /\ call = NoCall
    /\ ret = NoRet
    /\ pc = "ready"
    /\ fetchLog = <<>>
    /\ gen = NoGen
    /\ frames = <<>>
    /\ yielded = <<>>

AccessCollection ==
    /\ pc = "ready"
    /\ Resolved("collection", CollectionOf(world, factories, this))

NextItem == AccessCollection

SpecItem == InitItem /\ [][NextItem]_vars

(***************************************************************************)
(* Properties of Item.collection (SpecItem).                               *)
(***************************************************************************)
CollectionDone == pc = "done" /\ call.op = "collection"

\* C16: Item.collection fails with NoLinkFoundError exactly when the
\* document has a collection key and no collection link; without the key
\* and without such a link it returns None and fetches nothing; with one
\* such link it fetches it once and returns the classified result; with
\* more than one it fails with AmbiguousLinkError.
C16_ItemCollection ==
    CollectionDone =>
        LET n == RelCount(this.data, "COLLECTION")
            key == HasKey(this.data, "collection")
            l == CHOOSE x \in LinksWithRel(this.data, "COLLECTION") : TRUE
        IN  /\ (ret.err = NoLinkFoundError) <=> (key /\ n = 0)
            /\ (~key /\ n = 0) => (ret.err = Ok /\ ret.inst = NoInst /\ fetchLog = <<>>)
            /\ n = 1 =>
                /\ fetchLog = <<l.href>>
                /\ ret.err = world[l.href].status
                /\ ret.err = Ok => ret.inst = Make(StacRegistrations, world[l.href].data)
            /\ n > 1 => ret.err = AmbiguousLinkError

(***************************************************************************)
(* SpecCyc: walk() on the root of a graph whose child links may lead back  *)
(* to a node already on the path, every fetch succeeding.  The consumer    *)
(* asks for at most MaxYields triples.  LiveSpecCyc adds that a consumer   *)
(* who may ask for another triple does ask.                                *)
(***************************************************************************)
CycNodes == {NodeOrder[1], NodeOrder[2]}

CycGraphs == [CycNodes -> SeqsUpTo(CycNodes, MaxChildren)]

CycWorld(g) ==
    [u \in CycNodes \cup {ItemUrl} |->
        IF u = ItemUrl THEN Answer(FeatureDoc)
        ELSE Answer(NodeDoc(u, "o", g[u]))]

InitCyc ==
    /\ factories = StacRegistrations
    /\ trace = <<>>
    /\ \E g \in CycGraphs : world = CycWorld(g)
    /\ this = [cls |-> "Catalog", data |-> world[RootUrl].data]
    /\ call = [NoCall EXCEPT !.op = "walk"]
    /\ ret = NoRet
    /\ pc = "start"
    /\ fetchLog = <<>>
    /\ gen = NoGen
    /\ frames = <<>>
    /\ yielded = <<>>

\* next() of the consumer gives another triple ...
NextTriple ==
    /\ Len(yielded) < MaxYields
    /\ WalkDescend

\* ... or raises StopIteration.
Exhausted ==
    /\ Len(yielded) < MaxYields
    /\ WalkStop

NextCyc ==
    \/ WalkStart
    \/ NextTriple
    \/ Exhausted

SpecCyc == InitCyc /\ [][NextCyc]_vars

LiveSpecCyc == SpecCyc /\ WF_vars(NextCyc)

(***************************************************************************)
(* Properties of walk over a graph with a cycle (LiveSpecCyc).             *)
(***************************************************************************)
RECURSIVE Closure(_, _)
\* The nodes reachable from S over at most n child links.
Closure(S, n) ==
    IF n = 0 THEN S
    ELSE Closure(S \cup UNION {Range(ChildrenOf(u)) : u \in S}, n - 1)

Reachable(S) == Closure(S, Cardinality(CycNodes))

\* Some node reachable from E is reachable from its own children.
HasCycle ==
    \E u \in Reachable({RootUrl}) : u \in Reachable(Range(ChildrenOf(u)))

\* C17: when the child-link graph reachable from E has a cycle and every
\* fetch succeeds, the consumer of E.walk() never meets exhaustion: however
\* many triples it asks for it gets them, each after the first from one
\* more fetch.
C17_CyclicWalkNeverEnds ==
    /\ [](HasCycle => pc # "done")
    /\ [](HasCycle => Len(fetchLog) = Len(yielded) - (IF pc = "start" THEN 0 ELSE 1))
    /\ HasCycle ~> (Len(yielded) = MaxYields)

\* The walk went round a cycle: a node is on its own path.
C17_Witness ==
    /\ HasCycle
    /\ Len(yielded) = MaxYields
    /\ pc = "walking"
    /\ \E i, j \in 1..Len(frames) : i < j /\ frames[i].url = frames[j].url
    /\ ChildrenOf(RootUrl) = <<"http://x/A">>
    /\ ChildrenOf("http://x/A") = <<"http://x/A", RootUrl>>

(***************************************************************************)
(* More properties of ResourceFactory.make (SpecMake).                     *)
(***************************************************************************)
\* C18: make of a document with no registered type tag, none of extent,
\* providers, properties, and without one of stac_version, description,
\* links raises nothing and returns the document itself, unmodified.
C18_UnclassifiedIsRaw ==
    (/\ MakeDone
     /\ ~RegisteredTag(this.data)
     /\ {"extent", "providers", "properties"} \cap this.data.keys = {}
     /\ ~({"stac_version", "description", "links"} \subseteq this.data.keys))
        => /\ ret.err = Ok
           /\ ret.inst = [cls |-> "dict", data |-> this.data]

C18_Witness ==
    /\ MakeDone
    /\ this.data.type = "Feature"
    /\ this.data.keys = {"stac_version", "links"}
    /\ ret.err = Ok
    /\ ret.inst = [cls |-> "dict", data |-> this.data]

(***************************************************************************)
(* SpecLink: a caller holding one Link reads its rel or its href.  A       *)
(* member of RelationType is written by its name, as everywhere above.     *)
(***************************************************************************)
RelationValues == {RelationType[name] : name \in DOMAIN RelationType}
RawRels == RelationValues \cup DOMAIN RelationType \cup {"x-ext"}

\* Link.rel: RelationType[self['rel']], the member of that name.
Rel(link) ==
    IF link.rel \in DOMAIN RelationType
    THEN [err |-> Ok, value |-> link.rel]
    ELSE [err |-> KeyError, value |-> None]

\* Link.href: self['href']
Href(link) == [err |-> Ok, value |-> link.href]

InitLink ==
    /\ factories = StacRegistrations
    /\ trace = <<>>
    /\ world = <<>>
    /\ this \in {[cls |-> "Link", data |-> l] : l \in [rel : RawRels, href : Hrefs]}
    /\ call = NoCall
    /\ ret = NoRet
    /\ pc = "ready"
    /\ fetchLog = <<>>
    /\ gen = NoGen
    /\ frames = <<>>
    /\ yielded = <<>>

AccessRel ==
    /\ pc = "ready"
    /\ call' = [NoCall EXCEPT !.op = "rel"]
    /\ LET r == Rel(this.data)
       IN  ret' = [NoRet EXCEPT !.err = r.err, !.value = r.value]
    /\ pc' = "done"
    /\ UNCHANGED <<factories, world, this, fetchLog, gen, frames, yielded, trace>>

AccessHref ==
    /\ pc = "ready"
    /\ call' = [NoCall EXCEPT !.op = "href"]
    /\ LET r == Href(this.data)
       IN  ret' = [NoRet EXCEPT !.err = r.err, !.value = r.value]
    /\ pc' = "done"
    /\ UNCHANGED <<factories, world, this, fetchLog, gen, frames, yielded, trace>>

NextLink ==
    \/ AccessRel
    \/ AccessHref

SpecLink == InitLink /\ [][NextLink]_vars

(***************************************************************************)
(* Properties of Link.rel (SpecLink).                                      *)
(***************************************************************************)
\* C19: for a Link whose raw rel string is one of the relation values
\* (self, root, parent, ...), rel returns the member with that value; for
\* any other string it fails with a lookup error.
C19_RelByValue ==
    (pc = "done" /\ call.op = "rel") =>
        IF this.data.rel \in RelationValues
        THEN /\ ret.err = Ok
             /\ ret.value \in DOMAIN RelationType
             /\ RelationType[ret.value] = this.data.rel
        ELSE ret.err = KeyError

(***************************************************************************)
(* SpecLinksInit: Links(data) for a drawn argument.  A Python value is its *)
(* type and, for a sequence, its elements; an element is its type and its  *)
(* content.  The characters of a str are themselves strs.                  *)
(***************************************************************************)
NotSequenceError == "ValueError: The data argument must be a valid sequence type."
BadElementError == "ValueError: Sequence elements in data argument must be a dict or Link."

ElementTypes == {"dict", "Link", "str", "Catalog"}
Contents == {"a", "b"}
Elements == [type : ElementTypes, val : Contents]
Characters == [type : {"str"}, val : Contents]

LinksArguments ==
    {[cls |-> t, data |-> <<>>] : t \in {"NoneType", "dict", "int"}}
    \cup {[cls |-> t, data |-> es] : t \in {"list", "tuple"},
                                      es \in SeqsUpTo(Elements, MaxLinks)}
    \cup {[cls |-> "str", data |-> es] : es \in SeqsUpTo(Characters, MaxLinks)}

\* isinstance(data, collections.abc.Sequence)
IsSequence(arg) == arg.cls \in {"list", "tuple", "str"}

\* isinstance(link, (dict, Link))
IsDictOrLink(link) == link.type \in {"dict", "Link"}

\* Link(link) if isinstance(link, dict) else link
Coerce(link) == IF link.type = "dict" THEN [link EXCEPT !.type = "Link"] ELSE link

LinksInit_NoElementCheck(arg) ==
    IF ~IsSequence(arg)
    THEN [err |-> NotSequenceError, links |-> <<>>]
    ELSE [err |-> Ok, links |-> [i \in 1..Len(arg.data) |-> Coerce(arg.data[i])]]

\* Links.__init__
LinksInit(arg) ==
    IF ~IsSequence(arg)
    THEN [err |-> NotSequenceError, links |-> <<>>]
    ELSE IF ~(\A i \in 1..Len(arg.data) : IsDictOrLink(arg.data[i]))
    THEN [err |-> BadElementError, links |-> <<>>]
    ELSE [err |-> Ok, links |-> [i \in 1..Len(arg.data) |-> Coerce(arg.data[i])]]

InitLinksInit ==
    /\ factories = StacRegistrations
    /\ trace = <<>>
    /\ world = <<>>
    /\ this \in LinksArguments
    /\ call = NoCall
    /\ ret = NoRet
    /\ pc = "ready"
    /\ fetchLog = <<>>
    /\ gen = NoGen
    /\ frames = <<>>
    /\ yielded = <<>>

CallLinksInit ==
    /\ pc = "ready"
    /\ call' = [NoCall EXCEPT !.op = "Links"]
    /\ LET r == LinksInit(this)
       IN  ret' = [NoRet EXCEPT !.err = r.err, !.links = r.links]
    /\ pc' = "done"
    /\ UNCHANGED <<factories, world, this, fetchLog, gen, frames, yielded, trace>>

NextLinksInit == CallLinksInit

SpecLinksInit == InitLinksInit /\ [][NextLinksInit]_vars

(***************************************************************************)
(* Properties of the constructor of Links (SpecLinksInit).                 *)
(***************************************************************************)
LinksInitDone == pc = "done" /\ call.op = "Links"

\* The argument is a sequence whose elements are all dicts or Links.
Acceptable ==
    /\ this.cls \in {"list", "tuple", "str"}
    /\ \A i \in 1..Len(this.data) : this.data[i].type \in {"dict", "Link"}

\* C20: Links(data) fails when data is not a sequence (None included) or
\* when some element is neither a dict nor a Link; otherwise it succeeds
\* and the result holds only Links, as many as the input and in its order.
C20_LinksConstruction ==
    LinksInitDone =>
        IF Acceptable
        THEN /\ ret.err = Ok
             /\ Len(ret.links) = Len(this.data)
             /\ \A i \in 1..Len(ret.links) :
                    /\ ret.links[i].type = "Link"
                    /\ ret.links[i].val = this.data[i].val
        ELSE ret.err \in {NotSequenceError, BadElementError}

C20_Witness ==
    /\ LinksInitDone
    /\ this = [cls |-> "tuple", data |-> <<[type |-> "dict", val |-> "b"],
                                           [type |-> "Link", val |-> "a"]>>]
    /\ ret.err = Ok
    /\ ret.links = <<[type |-> "Link", val |-> "b"], [type |-> "Link", val |-> "a"]>>

(***************************************************************************)
(* SpecRegister: after the registrations of stac.py a host application     *)
(* registers up to MaxRegisters constructors, then make is applied to a    *)
(* drawn document.  A constructor is written by the name of its class.     *)
(***************************************************************************)
RegisterNames == {"Catalog", "Collection", "Item", "Feature"}
Constructors == {"Catalog", "Collection", "Item"}
RegisterKeys == {"extent", "stac_version", "description", "links"}

RegisterDocs ==
    {[type |-> t, keys |-> ks, id |-> "", links |-> <<>>] :
        t \in TypeTags, ks \in SUBSET RegisterKeys}

InitRegister ==
    /\ factories = StacRegistrations
    /\ trace = StacCalls
    /\ world = <<>>
    /\ this \in {[cls |-> "dict", data |-> d] : d \in RegisterDocs}
    /\ call = [NoCall EXCEPT !.op = "make"]
    /\ ret = NoRet
    /\ pc = "ready"
    /\ fetchLog = <<>>
    /\ gen = NoGen
    /\ frames = <<>>
    /\ yielded = <<>>

CallRegister ==
    /\ pc = "ready"
    /\ Len(trace) < Len(StacCalls) + MaxRegisters
    /\ \E name \in RegisterNames, factory \in Constructors :
        /\ factories' = Register(factories, name, factory)
        /\ trace' = Append(trace, [op |-> "register", name |-> name,
                                   factory |-> factory])
    /\ UNCHANGED <<world, this, call, ret, pc, fetchLog, gen, frames, yielded>>

NextRegister ==
    \/ CallRegister
    \/ CallMake

SpecRegister == InitRegister /\ [][NextRegister]_vars

(***************************************************************************)
(* Properties of register and make (SpecRegister).                         *)
(***************************************************************************)
\* The register calls made for a type tag, by their position in the trace.
RegistrationsOf(t) ==
    {i \in 1..Len(trace) : trace[i].op = "register" /\ trace[i].name = t}

\* The constructor most recently registered for a type tag.
LastRegistered(t) ==
    LET last == CHOOSE i \in RegistrationsOf(t) : \A j \in RegistrationsOf(t) : j <= i
    IN  trace[last].factory

\* make of a document with a registered tag gives the constructor most
\* recently registered for that tag, applied to the document.
MakeByLastRegistered ==
    (MakeDone /\ HasKey(this.data, "type") /\ RegistrationsOf(this.data.type) # {})
        => ret.inst = [cls |-> LastRegistered(this.data.type), data |-> this.data]

\* A register call for a tag leaves make as it was on every document that
\* carries another registered tag.
RegisterLeavesOtherTags ==
    trace' # trace =>
        LET name == trace'[Len(trace')].name
        IN  \A d \in RegisterDocs :
                (HasKey(d, "type") /\ d.type # name /\ RegistrationsOf(d.type) # {})
                    => Make(factories', d) = Make(factories, d)

\* C21: after any sequence of register calls, make of a document whose type
\* tag has been registered dispatches to the constructor most recently
\* registered for that tag, whatever the other keys; registering for a tag
\* does not change make for documents with another registered tag.
C21_RegisterThenMake ==
    /\ []MakeByLastRegistered
    /\ [][RegisterLeavesOtherTags]_vars

C21_Witness ==
    /\ MakeDone
    /\ this.data.type = "Feature"
    /\ this.data.keys = {"extent", "links"}
    /\ trace = StacCalls \o
                <<[op |-> "register", name |-> "Feature", factory |-> "Collection"],
                  [op |-> "register", name |-> "Feature", factory |-> "Item"]>>
    /\ ret.inst.cls = "Item"

(***************************************************************************)
(* More properties of the link filter (SpecLinks).                         *)
(***************************************************************************)
\* The positions of the document's links that carry the relation's value.
PositionsOf(data, rel_type) ==
    {i \in 1..Len(DocLinks(data)) : DocLinks(data)[i].rel = RelationType[rel_type]}

\* The k-th smallest member of a set of positions.
KthOf(P, k) == CHOOSE i \in P : Cardinality({j \in P : j <= i}) = k

\* C22: the collection the filter returns is, when a relation type is given,
\* the subsequence of the document's links whose rel equals the relation's
\* value, in document order; without a relation type it is all the links in
\* document order.
C22_FilteredSubsequence ==
    (pc = "done" /\ call.op = "links") =>
        /\ (~call.single /\ ~call.mandatory) => ret.err = Ok
        /\ ret.err = Ok =>
            IF call.rel_type = None
            THEN ret.links = DocLinks(this.data)
            ELSE LET P == PositionsOf(this.data, call.rel_type)
                 IN  /\ Len(ret.links) = Cardinality(P)
                     /\ \A k \in 1..Len(ret.links) :
                            ret.links[k] = DocLinks(this.data)[KthOf(P, k)]

C22_Witness ==
    /\ pc = "done" /\ call.op = "links" /\ call.rel_type = "CHILD"
    /\ DocLinks(this.data) = <<[rel |-> "child", href |-> "http://x/u2"],
                               [rel |-> "self", href |-> "http://x/u1"],
                               [rel |-> "child", href |-> "http://x/u1"]>>
    /\ ret.err = Ok
    /\ ret.links = <<[rel |-> "child", href |-> "http://x/u2"],
                     [rel |-> "child", href |-> "http://x/u1"]>>

(***************************************************************************)
(* SpecResource: a caller holding one Catalog calls resource() on its      *)
(* links, directly or by reading parent or root, up to MaxCalls times in   *)
(* any order.  The trace keeps the resource() calls and how each ended.    *)
(***************************************************************************)
ResourceRels == {"parent", "child"}
ResourceLinks == [rel : ResourceRels, href : Hrefs]

ResourceDocs ==
    {[type |-> NoType, keys |-> {"id", "links"}, id |-> "e", links |-> ls] :
        ls \in SeqsUpTo(ResourceLinks, MaxNavLinks)}

InitResource ==
    /\ factories = StacRegistrations
    /\ trace = <<>>
    /\ world \in NavWorlds
    /\ this \in {[cls |-> "Catalog", data |-> d] : d \in ResourceDocs}
    /\ call = NoCall
    /\ ret = NoRet
    /\ pc = "ready"
    /\ fetchLog = <<>>
    /\ gen = NoGen
    /\ frames = <<>>
    /\ yielded = <<>>

\* What a resource() call leaves in the variables.
Returned(op, r) ==
    /\ call' = [NoCall EXCEPT !.op = op]
    /\ ret' = [NoRet EXCEPT !.err = r.err, !.inst = r.inst, !.url = r.url]
    /\ fetchLog' = fetchLog \o r.fetched
    /\ trace' = Append(trace, [op |-> "resource", href |-> r.url, err |-> r.err,
                               inst |-> r.inst])
    /\ UNCHANGED <<factories, world, this, pc, gen, frames, yielded>>

\* entity.links()[i].resource()
CallResource ==
    /\ pc = "ready"
    /\ Len(trace) < MaxCalls
    /\ \E i \in 1..Len(DocLinks(this.data)) :
        Returned("resource", LinkResource(world, factories, DocLinks(this.data)[i]))

\* entity.parent or entity.root, when it finds its link and resolves it.
ResourceThrough(op, r) ==
    /\ Len(trace) < MaxCalls
    /\ r.fetched # <<>>
    /\ Returned(op, r)

ParentResource ==
    /\ pc = "ready"
    /\ ResourceThrough("parent", Parent(world, factories, this))

RootResource ==
    /\ pc = "ready"
    /\ ResourceThrough("root", Root(world, factories, this))

NextResource ==
    \/ CallResource
    \/ ParentResource
    \/ RootResource

SpecResource == InitResource /\ [][NextResource]_vars

(***************************************************************************)
(* Properties of Link.resource (SpecResource).                             *)
(***************************************************************************)
\* C23: in any sequence of resource() calls, direct or through a
\* navigation property, each call makes exactly one fetch, of its link's
\* href, whether it succeeds or fails; a failure is the fetcher's error
\* unchanged and is not retried, a repeated call fetches again: the fetches
\* are the calls, one for one.
C23_OneFetchPerResource ==
    /\ Len(fetchLog) = Len(trace)
    /\ \A i \in 1..Len(trace) :
        /\ trace[i].op = "resource"
        /\ fetchLog[i] = trace[i].href
        /\ trace[i].err = world[trace[i].href].status
        /\ trace[i].err = Ok =>
                trace[i].inst = Make(StacRegistrations, world[trace[i].href].data)

C23_Witness ==
    /\ Len(trace) = 3
    /\ trace[1].href = "http://x/u1" /\ trace[1].err = HTTPError
    /\ trace[2].href = "http://x/u1" /\ trace[2].err = HTTPError
    /\ trace[3].href = "http://x/u2" /\ trace[3].err = Ok
    /\ call.op = "parent"
    /\ fetchLog = <<"http://x/u1", "http://x/u1", "http://x/u2">>

(***************************************************************************)
(* SpecFresh: a caller takes entity.links(rel_type), changes the           *)
(* collection it was handed (a key of an element, an element removed or    *)
(* added) and calls links again.  An object of the returned collection     *)
(* tells which object of the document it shares its storage with: 0 for    *)
(* none, i for the i-th element of the document's links array.             *)
(***************************************************************************)
FreshRels == {"child", "self"}
FreshLinks == [rel : FreshRels, href : Hrefs]
FreshRelTypes == {None, "CHILD"}
NewHref == "http://x/new"
NewRel == "item"

FreshDocs ==
    {[type |-> NoType, keys |-> {"id", "links"}, id |-> "e", links |-> ls] :
        ls \in SeqsUpTo(FreshLinks, MaxNavLinks)}

NewLink_SameDict(link, i) == [rel |-> link.rel, href |-> link.href, shares |-> i]

\* Link(link) for a dict: UserDict.__init__ copies the items of the dict
\* into a dict of its own.
NewLink(link, i) == [rel |-> link.rel, href |-> link.href, shares |-> 0]

\* The list comprehension of the filter: the positions it keeps, in order.
Kept(links, rel_type) ==
    {i \in 1..Len(links) : rel_type = None \/ links[i].rel = RelationType[rel_type]}

RECURSIVE Ascending(_)
Ascending(P) ==
    IF P = {} THEN <<>>
    ELSE LET least == CHOOSE i \in P : \A j \in P : i <= j
         IN  <<least>> \o Ascending(P \ {least})

\* Traversable.links, then Links.__init__: a new list of new Link objects.
LinksObjects(data, rel_type) ==
    LET links == IF HasKey(data, "links") THEN data.links ELSE <<>>
        kept == Ascending(Kept(links, rel_type))
    IN  [k \in 1..Len(kept) |-> NewLink(links[kept[k]], kept[k])]

InitFresh ==
    /\ factories = StacRegistrations
    /\ trace = <<>>
    /\ world = <<>>
    /\ this \in {[cls |-> "Catalog", data |-> d] : d \in FreshDocs}
    /\ call \in {[NoCall EXCEPT !.op = "links", !.rel_type = r] : r \in FreshRelTypes}
    /\ ret = NoRet
    /\ pc = "ready"
    /\ fetchLog = <<>>
    /\ gen = NoGen
    /\ frames = <<>>
    /\ yielded = <<>>

\* held = entity.links(rel_type)
TakeLinks ==
    /\ pc = "ready"
    /\ ret' = [NoRet EXCEPT !.err = Ok, !.links = LinksObjects(this.data, call.rel_type)]
    /\ trace' = <<[op |-> "links", data |-> this.data,
                   links |-> LinksOf(this, call.rel_type, FALSE, FALSE).links]>>
    /\ pc' = "held"
    /\ UNCHANGED <<factories, world, this, call, fetchLog, gen, frames, yielded>>

Mutations == Cardinality({i \in 1..Len(trace) : trace[i].op # "links"})

\* A store into an object reaches the document when the storage is shared.
Store(data, object, key, value) ==
    IF object.shares = 0 THEN data
    ELSE [data EXCEPT !.links[object.shares][key] = value]

\* held[k]['href'] = ... or held[k]['rel'] = ...
SetKey ==
    /\ pc = "held"
    /\ Mutations < MaxMutations
    /\ \E k \in 1..Len(ret.links), key \in {"rel", "href"} :
        LET value == IF key = "rel" THEN NewRel ELSE NewHref
        IN  /\ ret' = [ret EXCEPT !.links[k][key] = value]
            /\ this' = [this EXCEPT !.data = Store(this.data, ret.links[k], key, value)]
            /\ trace' = Append(trace, [op |-> "setitem", k |-> k, key |-> key])
    /\ UNCHANGED <<factories, world, call, pc, fetchLog, gen, frames, yielded>>

\* held.pop(k): the list of a Links is its own.
PopLink ==
    /\ pc = "held"
    /\ Mutations < MaxMutations
    /\ \E k \in 1..Len(ret.links) :
        /\ ret' = [ret EXCEPT !.links = SubSeq(ret.links, 1, k - 1)
                                        \o SubSeq(ret.links, k + 1, Len(ret.links))]
        /\ trace' = Append(trace, [op |-> "pop", k |-> k])
    /\ UNCHANGED <<factories, world, this, call, pc, fetchLog, gen, frames, yielded>>

\* held.append(Link(...))
AppendLink ==
    /\ pc = "held"
    /\ Mutations < MaxMutations
    /\ ret' = [ret EXCEPT !.links = Append(ret.links,
                    [rel |-> "child", href |-> NewHref, shares |-> 0])]
    /\ trace' = Append(trace, [op |-> "append"])
    /\ UNCHANGED <<factories, world, this, call, pc, fetchLog, gen, frames, yielded>>

\* entity.links(rel_type) once more, after a change.
LinksAgain ==
    /\ pc = "held"
    /\ trace[Len(trace)].op # "links"
    /\ trace' = Append(trace, [op |-> "links", data |-> this.data,
                   links |-> LinksOf(this, call.rel_type, FALSE, FALSE).links])
    /\ UNCHANGED <<factories, world, this, call, ret, pc, fetchLog, gen, frames, yielded>>

NextFresh ==
    \/ TakeLinks
    \/ SetKey
    \/ PopLink
    \/ AppendLink
    \/ LinksAgain

SpecFresh == InitFresh /\ [][NextFresh]_vars

(***************************************************************************)
(* Properties of the returned collection (SpecFresh).                      *)
(***************************************************************************)
\* C24: the collection a links call returns is the caller's own: adding or
\* removing elements of it, or changing a key of one of its Links, leaves
\* the entity's document as it was and every later links call returns what
\* the first one returned.
C24_FreshCollection ==
    pc = "held" =>
        /\ this.data = trace[1].data
        /\ \A i \in 1..Len(trace) :
                trace[i].op = "links" =>
                    (trace[i].data = trace[1].data /\ trace[i].links = trace[1].links)

C24_Witness ==
    /\ pc = "held"
    /\ call.rel_type = "CHILD"
    /\ Len(trace) = 4
    /\ trace[2].op = "setitem" /\ trace[2].key = "rel"
    /\ trace[3].op = "pop"
    /\ trace[4].op = "links"
    /\ Len(trace[4].links) = 2
    /\ Len(ret.links) = 1

(***************************************************************************)
(* SpecThree: the same document and the same arguments handed to the       *)
(* three implementations of the link filter, one after the other.  The     *)
(* trace keeps what each of them returned or raised.                       *)
(***************************************************************************)
InitThree ==
    /\ factories = StacRegistrations
    /\ trace = <<>>
    /\ world = <<>>
    /\ this \in {[cls |-> "Catalog", data |-> d] : d \in FilterDocs}
    /\ call \in {[op |-> "links", rel_type |-> r, single |-> s, mandatory |-> m,
                  id |-> ""] : r \in FilterRelTypes, s \in BOOLEAN, m \in BOOLEAN}
    /\ ret = NoRet
    /\ pc = "ready"
    /\ fetchLog = <<>>
    /\ gen = NoGen
    /\ frames = <<>>
    /\ yielded = <<>>

\* One implementation called on the document; the document is not changed.
Filtered(cls, r) ==
    /\ ret' = [NoRet EXCEPT !.err = r.err, !.links = r.links]
    /\ trace' = Append(trace, [op |-> "links", cls |-> cls, err |-> r.err,
                               links |-> r.links])
    /\ UNCHANGED <<factories, world, this, call, pc, fetchLog, gen, frames, yielded>>

\* Traversable(data).links(rel_type, single, mandatory)
CallTraversableLinks ==
    /\ Len(trace) = 0
    /\ Filtered("Traversable",
                TraversableLinks(this.data, call.rel_type, call.single, call.mandatory))

\* BaseContainer(data)._links(rel_type, single, mandatory)
CallBaseContainerLinks ==
    /\ Len(trace) = 1
    /\ Filtered("BaseContainer",
                BaseContainerLinks(this.data, call.rel_type, call.single, call.mandatory))

\* Item(data)._links(rel_type, single, mandatory)
CallItemLinks ==
    /\ Len(trace) = 2
    /\ Filtered("Item",
                ItemLinks(this.data, call.rel_type, call.single, call.mandatory))

NextThree ==
    \/ CallTraversableLinks
    \/ CallBaseContainerLinks
    \/ CallItemLinks

SpecThree == InitThree /\ [][NextThree]_vars

(***************************************************************************)
(* Properties of the three implementations (SpecThree).                    *)
(***************************************************************************)
\* C25: Traversable.links, BaseContainer._links and Item._links agree: on
\* every document, with or without a links key, and every rel_type, single
\* and mandatory they all fail with the same error or all return equal
\* collections.
C25_ThreeFiltersAgree ==
    \A i, j \in 1..Len(trace) :
        /\ trace[i].err = trace[j].err
        /\ trace[i].links = trace[j].links

(***************************************************************************)
(* More properties of walk and filter_by_id (SpecWalk).                    *)
(***************************************************************************)
\* The non-empty child-link paths that start at E, one per link followed.
PathCount == Len(PathOrder(<<RootUrl>>)) - 1

Walking == call.op = "walk" /\ pc # "done"

\* next() has something to do: the first triple to yield, a pending child
\* link that resolves to an entity with a walk method, or the end to report.
CanGoOn ==
    \/ pc = "start"
    \/ /\ pc = "walking"
       /\ LET fs == Unwind(frames)
          IN  \/ fs = <<>>
              \/ LET r == LinkResource(world, factories,
                                       Head(Pending(fs[Len(fs)].children)))
                  IN  r.err = Ok /\ Walkable(r.inst)

\* A walk that is not over can go on, and has not yielded more than E and
\* one triple per path; when it is over it has fetched once per path and no item link.
WalkFetchesPaths ==
    /\ Walking => (CanGoOn /\ Len(yielded) <= PathCount + 1)
    /\ WalkDone => (Len(fetchLog) = PathCount /\ ItemUrl \notin Range(fetchLog))

\* Every step of the walk yields one more triple or ends it.
WalkAdvances ==
    Walking => (Len(yielded') = Len(yielded) + 1 \/ pc' = "done")

\* C26: on a finite acyclic graph whose child links all resolve to Catalogs
\* or Collections, consuming E.walk() without touching the yielded children
\* and items terminates after one fetch per non-empty child-link path that
\* starts at E, and fetches no item link.
C26_WalkTerminates ==
    /\ []WalkFetchesPaths
    /\ [][WalkAdvances]_vars

C26_Witness ==
    /\ WalkDone
    /\ ChildrenOf(RootUrl) = <<"http://x/A", "http://x/B">>
    /\ ChildrenOf("http://x/A") = <<"http://x/X", "http://x/X">>
    /\ ChildrenOf("http://x/B") = <<"http://x/X">>
    /\ fetchLog = <<"http://x/A", "http://x/X", "http://x/X", "http://x/B", "http://x/X">>

\* Every entity reachable from E is reached along exactly one path.
IsTree == Len(PathOrder(<<RootUrl>>)) = Cardinality(Range(PathOrder(<<RootUrl>>)))

\* How many times a URL was handed to the fetcher.
Fetches(u) == Cardinality({i \in 1..Len(fetchLog) : fetchLog[i] = u})

\* C27: on a tree in which no proper descendant of E has the id,
\* filter_by_id returns None after fetching every proper descendant exactly
\* twice, once to test its id and once to walk into it, and no item link;
\* when it returns a match, the fetch that gave the match is the last one.
C27_FilterByIdFetches ==
    (FilterByIdDone /\ IsTree) =>
        /\ Matches = {} =>
            /\ ret.err = Ok /\ ret.inst = NoInst
            /\ \A u \in Descendants : Fetches(u) = 2
            /\ Len(fetchLog) = 2 * Cardinality(Descendants)
            /\ ItemUrl \notin Range(fetchLog)
        /\ Matches # {} =>
            /\ ret.url \in Matches
            /\ fetchLog[Len(fetchLog)] = ret.url

C27_Witness ==
    /\ FilterByIdDone
    /\ Matches = {}
    /\ ChildrenOf(RootUrl) = <<"http://x/A", "http://x/B">>
    /\ ChildrenOf("http://x/A") = <<"http://x/X">>
    /\ ChildrenOf("http://x/B") = <<>>
    /\ fetchLog = <<"http://x/A", "http://x/B", "http://x/A", "http://x/X",
                    "http://x/X", "http://x/B">>
    /\ ret.inst = NoInst

(***************************************************************************)
(* SpecConsume: walk() on an acyclic graph, the consumer iterating, between *)
(* two steps of the walk, none, part or all of the children and items      *)
(* generators of the triple it was handed last.  The trace keeps the       *)
(* consumer's next() calls on those generators.                            *)
(***************************************************************************)
ConsumeGraphs ==
    {[u \in Nodes |-> CASE u = NodeOrder[1] -> e
                        [] u = NodeOrder[2] -> a
                        [] OTHER -> <<>>] :
        e \in SeqsUpTo({NodeOrder[2], NodeOrder[3]}, MaxChildren),
        a \in SeqsUpTo({NodeOrder[3]}, 1)}

InitConsume ==
    /\ factories = StacRegistrations
    /\ trace = <<>>
    /\ \E g \in ConsumeGraphs : world = GraphWorld(g, [u \in Nodes |-> "o"])
    /\ this = [cls |-> "Catalog", data |-> world[RootUrl].data]
    /\ call = [NoCall EXCEPT !.op = "walk"]
    /\ ret = NoRet
    /\ pc = "start"
    /\ fetchLog = <<>>
    /\ gen = NoGen
    /\ frames = <<>>
    /\ yielded = <<>>

\* The next() calls made so far on one generator of the i-th triple.
Taken(i, kind) ==
    Cardinality({j \in 1..Len(trace) : trace[j].triple = i /\ trace[j].of = kind})

\* next() on the children or items generator of the last triple: the
\* generator was made by the property read in 'yield self, self.children,
\* self.items' and is the consumer's alone.
ConsumeYielded(kind) ==
    /\ LET i == Len(yielded)
           links == LinksOf(yielded[i].inst, kind, FALSE, FALSE).links
           n == Taken(i, kind)
       IN  /\ n < Len(links)
           /\ LET r == LinkResource(world, factories, links[n + 1])
              IN  /\ r.err = Ok
                  /\ fetchLog' = fetchLog \o r.fetched
                  /\ trace' = Append(trace, [op |-> "next", triple |-> i, of |-> kind,
                                             href |-> r.url])
    /\ UNCHANGED <<factories, world, this, call, ret, pc, gen, frames, yielded>>

ConsumeChildren ==
    /\ pc = "walking"
    /\ ConsumeYielded("CHILD")

ConsumeItems ==
    /\ pc = "walking"
    /\ ConsumeYielded("ITEM")

NextConsume ==
    \/ WalkStart
    \/ WalkDescend
    \/ WalkStop
    \/ ConsumeChildren
    \/ ConsumeItems

SpecConsume == InitConsume /\ [][NextConsume]_vars

(***************************************************************************)
(* Properties of walk under a consuming caller (SpecConsume).              *)
(***************************************************************************)
\* C28: whatever the consumer iterates of the yielded children and items
\* generators between the steps of walk, walk yields the same entities in
\* the same order as when nothing is iterated; only the fetches differ, by
\* one per element the consumer took.
C28_WalkIndependentOfConsumer ==
    /\ UrlsOf(yielded) = SubSeq(PathOrder(<<RootUrl>>), 1, Len(yielded))
    /\ \A i \in 1..Len(yielded) :
            yielded[i].inst = IF i = 1 THEN this ELSE EntityAt(yielded[i].url)
    /\ pc = "done" => UrlsOf(yielded) = PathOrder(<<RootUrl>>)
    /\ pc = "walking" => Len(fetchLog) = Len(yielded) - 1 + Len(trace)

C28_Witness ==
    /\ pc = "done"
    /\ ChildrenOf(RootUrl) = <<"http://x/A", "http://x/B">>
    /\ ChildrenOf("http://x/A") = <<"http://x/B">>
    /\ UrlsOf(yielded) = <<RootUrl, "http://x/A", "http://x/B", "http://x/B">>
    /\ fetchLog = <<"http://x/A", ItemUrl, "http://x/A", "http://x/B",
                    "http://x/B", ItemUrl, "http://x/B">>

(***************************************************************************)
(* SpecStray: walk() on an acyclic graph in which one node may answer a    *)
(* document that is not made a Catalog or Collection.                      *)
(***************************************************************************)
ItemDoc ==
    [type |-> "Item",
     keys |-> {"type", "stac_version", "id", "geometry", "properties", "assets", "links"},
     id |-> "i2", links |-> <<>>]
RawDoc == [type |-> NoType, keys |-> {"id"}, id |-> "r1", links |-> <<>>]

\* What the stray node answers: an Item document, a document no class is
\* made for, and a GeoJSON Feature (made a Collection by its properties key).
StrayDocs == {ItemDoc, RawDoc, FeatureDoc}

StrayGraphs ==
    {[u \in Nodes |-> CASE u = NodeOrder[1] -> e
                        [] u = NodeOrder[2] -> a
                        [] OTHER -> <<>>] :
        e \in KidsOf(NodeOrder[1]), a \in SeqsUpTo(Later(NodeOrder[2]), 1)}

StrayWorlds ==
    LET plain == {GraphWorld(g, [u \in Nodes |-> "o"]) : g \in StrayGraphs}
    IN  plain \cup {[w EXCEPT ![u] = Answer(doc)] :
                        w \in plain, u \in Nodes \ {RootUrl}, doc \in StrayDocs}

InitStray ==
    /\ factories = StacRegistrations
    /\ trace = <<>>
    /\ world \in StrayWorlds
    /\ this = [cls |-> "Catalog", data |-> world[RootUrl].data]
    /\ call = [NoCall EXCEPT !.op = "walk"]
    /\ ret = NoRet
    /\ pc = "start"
    /\ fetchLog = <<>>
    /\ gen = NoGen
    /\ frames = <<>>
    /\ yielded = <<>>

\* next(): the innermost loop with a child link left resolves it to an
\* object without a walk method; child.walk() raises AttributeError, which
\* no frame catches.
WalkFail ==
    /\ pc = "walking"
    /\ Unwind(frames) # <<>>
    /\ LET fs == Unwind(frames)
           r == LinkResource(world, factories, Head(Pending(fs[Len(fs)].children)))
       IN  /\ r.err = Ok
           /\ ~Walkable(r.inst)
           /\ fetchLog' = fetchLog \o r.fetched
           /\ ret' = [NoRet EXCEPT !.err = AttributeError, !.url = r.url]
    /\ frames' = <<>>
    /\ pc' = "done"
    /\ UNCHANGED <<factories, world, this, call, gen, yielded, trace>>

NextStray ==
    \/ WalkStart
    \/ WalkDescend
    \/ WalkStop
    \/ WalkFail

SpecStray == InitStray /\ [][NextStray]_vars

(***************************************************************************)
(* Properties of walk over a stray child (SpecStray).                      *)
(***************************************************************************)
IsContainer(inst) == inst.cls = "Catalog" \/ inst.cls = "Collection"

\* The place, in depth-first pre-order over child-link paths, of the first
\* child that resolves to something else than a Catalog or Collection;
\* 0 when there is none.
FirstStray ==
    LET order == PathOrder(<<RootUrl>>)
        stray == {i \in 2..Len(order) : ~IsContainer(EntityAt(order[i]))}
    IN  IF stray = {} THEN 0
        ELSE CHOOSE i \in stray : \A j \in stray : i <= j

\* C29: when a child link reachable during E.walk() resolves to something
\* that is not a Catalog or Collection, walk yields the triples that come
\* before that child in depth-first pre-order and then fails at the child:
\* no triple is yielded for it and the walk never goes past it.
C29_WalkFailsAtStrayChild ==
    LET order == PathOrder(<<RootUrl>>)
    IN  /\ \A i \in 1..Len(yielded) : IsContainer(yielded[i].inst)
        /\ UrlsOf(yielded) = SubSeq(order, 1, Len(yielded))
        /\ FirstStray # 0 =>
            /\ Len(yielded) < FirstStray
            /\ pc = "done" =>
                /\ ret.err = AttributeError
                /\ ret.url = order[FirstStray]
                /\ UrlsOf(yielded) = SubSeq(order, 1, FirstStray - 1)
                /\ fetchLog = SubSeq(order, 2, FirstStray)
        /\ (FirstStray = 0 /\ pc = "done") =>
                ret.err = Ok /\ UrlsOf(yielded) = order

C29_Witness ==
    /\ pc = "done"
    /\ ret.err = AttributeError
    /\ ChildrenOf(RootUrl) = <<"http://x/A", "http://x/B">>
    /\ ChildrenOf("http://x/A") = <<"http://x/X">>
    /\ world["http://x/B"].data = ItemDoc
    /\ UrlsOf(yielded) = <<RootUrl, "http://x/A", "http://x/X">>
    /\ fetchLog = <<"http://x/A", "http://x/X", "http://x/B">>

(***************************************************************************)
(* SpecService: a Service whose catalog() is called up to MaxCatalogCalls  *)
(* times, the server free to change its answer between the calls.  'this' *)
(* is the Service: its _url and its _catalog, None or a Catalog object     *)
(* known by the number of its construction.  The trace keeps, per call,    *)
(* the outcome, the object returned and the fetches made.                  *)
(***************************************************************************)
ServiceUrl == "http://x/S"

ServiceAnswers ==
    {Answer(EmptyDoc), Answer(CatalogDoc), Answer(CollectionDoc),
     Failure(HTTPError), Failure(ValueError)}

NoCatalog == [obj |-> 0, cls |-> "NoneType", data |-> EmptyDoc]

\* Service.__init__
InitService ==
    /\ factories = StacRegistrations
    /\ trace = <<>>
    /\ \E a \in ServiceAnswers : world = [u \in {ServiceUrl} |-> a]
    /\ this = [url |-> ServiceUrl, catalog |-> NoCatalog]
    /\ call = NoCall
    /\ ret = NoRet
    /\ pc = "ready"
    /\ fetchLog = <<>>
    /\ gen = NoGen
    /\ frames = <<>>
    /\ yielded = <<>>

\* bool(self._catalog): None is false, and a Catalog is a UserDict, false
\* when its document has no key.
Truthy(catalog) == catalog.cls # "NoneType" /\ catalog.data.keys # {}

\* The Catalog objects constructed so far.
Constructed == Cardinality({i \in 1..Len(trace) : trace[i].made})

\* Service.catalog()
CallCatalog ==
    /\ pc = "ready"
    /\ Len(trace) < MaxCatalogCalls
    /\ call' = [NoCall EXCEPT !.op = "catalog"]
    /\ IF Truthy(this.catalog)
       THEN /\ ret' = [NoRet EXCEPT !.err = Ok, !.inst = [cls |-> this.catalog.cls,
                                                          data |-> this.catalog.data]]
            /\ trace' = Append(trace, [op |-> "catalog", err |-> Ok,
                                       obj |-> this.catalog.obj, made |-> FALSE,
                                       fetched |-> <<>>])
            /\ UNCHANGED <<this, fetchLog>>
       ELSE LET response == Get(world, this.url)
            IN  /\ fetchLog' = Append(fetchLog, this.url)
                /\ IF response.status = Ok
                   THEN LET made == [obj |-> Constructed + 1, cls |-> "Catalog",
                                     data |-> response.data]
                        IN  /\ this' = [this EXCEPT !.catalog = made]
                            /\ ret' = [NoRet EXCEPT !.err = Ok,
                                          !.inst = [cls |-> made.cls, data |-> made.data]]
                            /\ trace' = Append(trace, [op |-> "catalog", err |-> Ok,
                                                       obj |-> made.obj, made |-> TRUE,
                                                       fetched |-> <<this.url>>])
                   ELSE /\ this' = this
                        /\ ret' = [NoRet EXCEPT !.err = response.status]
                        /\ trace' = Append(trace, [op |-> "catalog",
                                                   err |-> response.status,
                                                   obj |-> 0, made |-> FALSE,
                                                   fetched |-> <<this.url>>])
    /\ UNCHANGED <<factories, world, pc, gen, frames, yielded>>

\* Between two calls the server comes to answer something else.
ServerChanges ==
    /\ pc = "ready"
    /\ Len(trace) < MaxCatalogCalls
    /\ \E a \in ServiceAnswers :
            /\ world[ServiceUrl] # a
            /\ world' = [world EXCEPT ![ServiceUrl] = a]
    /\ UNCHANGED <<factories, this, call, ret, pc, fetchLog, gen, frames, yielded, trace>>

NextService ==
    \/ CallCatalog
    \/ ServerChanges

SpecService == InitService /\ [][NextService]_vars

(***************************************************************************)
(* Properties of Service.catalog (SpecService).                            *)
(***************************************************************************)
\* C30: once a call of catalog() has returned, every later call on the same
\* Service returns the same Catalog object and fetches nothing, whatever
\* document the first fetch returned, an empty document included; a call
\* that follows only failed calls fetches again.
C30_CatalogFetchedOnce ==
    \A j \in 1..Len(trace) :
        IF \E i \in 1..(j - 1) : trace[i].err = Ok
        THEN LET first == CHOOSE i \in 1..(j - 1) :
                            /\ trace[i].err = Ok
                            /\ \A k \in 1..(i - 1) : trace[k].err # Ok
             IN  /\ trace[j].err = Ok
                 /\ trace[j].obj = trace[first].obj
                 /\ trace[j].fetched = <<>>
        ELSE trace[j].fetched = <<ServiceUrl>>

====
